---- MODULE Spec2Model ----
(***************************************************************************)
(* Model of controllers/attestation_controller_command.go: the credential  *)
(* resolution fallback chain (GetClusterClientConfig), the client          *)
(* factories (GetClientsetFromClusterConfig, GetClusterClientset,          *)
(* GetRESTClient) and the remote streaming call (PodList).                 *)
(*                                                                         *)
(* Every invocation is one element of Calls and owns its locals; the       *)
(* exported function is an entry point of its own:                         *)
(* GetClientsetFromClusterConfig is entered with the config its caller     *)
(* hands in, the others resolve the config themselves. The                 *)
(* client-go functions the file calls (rest.InClusterConfig,               *)
(* clientcmd.BuildConfigFromFlags, kubernetes.NewForConfig,                *)
(* rest.RESTClientFor, core_v1.AddToScheme, remotecommand.NewSPDYExecutor, *)
(* Executor.StreamWithContext) are the environment: each returns one of    *)
(* the outcomes its signature allows, chosen nondeterministically.         *)
(*                                                                         *)
(* An error value is the sequence of the fragments of its message: Nil is  *)
(* the nil error, fmt.Errorf concatenates the format's literal text with   *)
(* the %v rendering of its arguments (a nil error renders as "<nil>").     *)
(***************************************************************************)
EXTENDS Naturals, Sequences, FiniteSets

\* Bound: the number of bytes the remote sides emit in one run, all sessions
\* together.
MaxEmit == 2

\* The invocations that may run concurrently.
Calls == {"c1", "c2"}

\* The byte values the remote side may emit.
Bytes == {"a", "b"}

\* The two output channels of the multiplexed connection.
Channels == {"stdout", "stderr"}

\* The exported functions of the file.
EntryPoints ==
  {"GetClusterClientConfig", "GetClientsetFromClusterConfig", "GetClusterClientset",
   "GetRESTClient", "PodList"}

\* The exported functions that start with GetClusterClientConfig (lines 39, 69,
\* 82 and 100); GetClientsetFromClusterConfig takes the config from its caller.
ResolvingEntryPoints ==
  {"GetClusterClientConfig", "GetClusterClientset", "GetRESTClient", "PodList"}

\* The config arguments tried for GetClientsetFromClusterConfig (line 54): the
\* parameter is a pointer, which the function does not check.
ConfigArguments == {"nil", "inClusterConfig", "kubeConfig"}

\* The namespace arguments tried for PodList.
Namespaces == {"", "default"}

\* The nil error.
Nil == <<>>

VARIABLES
  pc,         \* the statement each call executes next
  entry,      \* the exported function each call entered
  namespace,  \* PodList's namespace argument
  cfgErr,     \* GetClusterClientConfig's local err
  config,     \* the entry point's local config
  clientset,  \* PodList's local clientset
  err,        \* the entry point's local err
  req,        \* the URL of PodList's request
  stdout,     \* PodList's stdout buffer
  stderr,     \* PodList's stderr buffer
  session,    \* the upgraded connection of the call: none, open, closed
  emitted,    \* what the remote side emitted on the session, in order
  outcome,    \* how the session ended
  cancel,     \* when the caller's cancellation signal fired
  trace,      \* the client-go calls made so far, each with the error it returned
  ret         \* the values returned to the caller

locals == <<cfgErr, config, clientset, err, req, stdout, stderr>>
vars == <<pc, entry, namespace, cfgErr, config, clientset, err, req, stdout, stderr,
          session, emitted, outcome, cancel, trace, ret>>

----------------------------------------------------------------------------
\* Errors

\* %v / %+v of an error argument.
Fmt(e) == IF e = Nil THEN <<"<nil>">> ELSE e

\* The values an invocation hands back: a handle (config, clientset or REST
\* client), PodList's two strings, and the error.
Result(h, out, errout, e) == [handle |-> h, stdout |-> out, stderr |-> errout, err |-> e]

NotReturned == Result("none", <<>>, <<>>, Nil)

----------------------------------------------------------------------------
\* The environment: what the client-go functions may return

\* rest.InClusterConfig(): a config, or an error (not in a cluster).
InClusterOutcomes ==
  { [config |-> "inClusterConfig", err |-> Nil],
    [config |-> "nil", err |-> <<"ErrNotInCluster">>] }

\* clientcmd.BuildConfigFromFlags("", <HOME>/.kube/config).
BuildConfigOutcomes ==
  { [config |-> "kubeConfig", err |-> Nil],
    [config |-> "nil", err |-> <<"stat .kube/config: no such file">>] }

\* kubernetes.NewForConfig(config) on a config that is not nil.
NewForConfigOutcomes ==
  { [clientset |-> "clientset", err |-> Nil],
    [clientset |-> "nil", err |-> <<"host must be a URL">>] }

\* kubernetes.NewForConfig(nil): its first statement copies *config, and the
\* goroutine panics.
NilDereference == <<"panic: invalid memory address or nil pointer dereference">>

\* rest.RESTClientFor(config).
RESTClientForOutcomes ==
  { [client |-> "restClient", err |-> Nil],
    [client |-> "nil", err |-> <<"GroupVersion is required">>] }

\* core_v1.AddToScheme(scheme).
AddToSchemeOutcomes == { Nil, <<"type registered twice">> }

\* remotecommand.NewSPDYExecutor(config, "GET", url).
NewSPDYExecutorOutcomes ==
  { [exec |-> "executor", err |-> Nil],
    [exec |-> "nil", err |-> <<"unable to create round tripper">>] }

\* The error StreamWithContext hands back when the connection upgrade is refused.
UpgradeRefused == <<"unable to upgrade connection">>

\* The error StreamWithContext hands back when its context is done.
ContextCanceled == <<"context canceled">>

\* How a session that was established ends on the remote side, and the error
\* StreamWithContext returns for it: the remote closes after exit status 0
\* (nil), the remote closes after a non-zero exit status (the status arrives
\* on the error channel and is returned as an exit-code error), or the
\* connection drops.
RemoteOutcomes ==
  { [end |-> "closed", exit |-> 0, err |-> Nil],
    [end |-> "closed", exit |-> 1, err |-> <<"command terminated with exit code 1">>],
    [end |-> "dropped", exit |-> 0, err |-> <<"connection reset by peer">>] }

\* The mark of a StreamWithContext call that has not returned yet.
Pending == <<"(in progress)">>

\* No session has ended.
NoOutcome == [end |-> "none", exit |-> 0, err |-> Nil]

----------------------------------------------------------------------------
\* GetClusterClientConfig

\* A variant of line 41 that takes the file fallback whatever InClusterConfig
\* returned.
NeedsFallbackAlways(e) == TRUE

\* Line 41: the file fallback is taken when InClusterConfig failed.
NeedsFallback(e) == e /= Nil

\* The two places of the format of line 46 that name a cause.
InClusterLabel == "Error in InClusterConfig: "
BuildConfigLabel == "Error in BuildConfigFromFlags: "

\* A variant of line 46 that formats the second error in both places (err1
\* lost, as with exception chaining that overwrites err).
AggregateErrorLosesFirst(err1, e) ==
  <<"InClusterConfig as well as BuildConfigFromFlags Failed. ", InClusterLabel>>
    \o Fmt(e) \o <<"\n", BuildConfigLabel>> \o Fmt(e)

\* Line 46: the error of a double failure.
AggregateError(err1, e) ==
  <<"InClusterConfig as well as BuildConfigFromFlags Failed. ", InClusterLabel>>
    \o Fmt(err1) \o <<"\n", BuildConfigLabel>> \o Fmt(e)

\* A variant of lines 45-50 that hands back the InClusterConfig error with the
\* config of the fallback.
FallbackReturnKeepsFirstError(err1, cfg, e) ==
  IF e /= Nil THEN [config |-> "nil", err |-> AggregateError(err1, e)]
              ELSE [config |-> cfg, err |-> err1]

\* Lines 45-50: what GetClusterClientConfig returns after the fallback.
FallbackReturn(err1, cfg, e) ==
  IF e /= Nil THEN [config |-> "nil", err |-> AggregateError(err1, e)]
              ELSE [config |-> cfg, err |-> Nil]

----------------------------------------------------------------------------
\* GetClientsetFromClusterConfig

\* Lines 55-61.
GetClientsetFromClusterConfig(o) ==
  IF o.err /= Nil
    THEN [clientset |-> "nil", err |-> <<"failed creating clientset. Error: ">> \o Fmt(o.err)]
    ELSE [clientset |-> o.clientset, err |-> Nil]

----------------------------------------------------------------------------
\* What each entry point does with the values GetClusterClientConfig returned:
\* the statement it goes to, and what it returns when it returns at once.

Goto(l) == [pc |-> l, ret |-> NotReturned]
Return(r) == [pc |-> "done", ret |-> r]

\* Lines 69-74.
GetClusterClientsetAfterConfig(cfg, e) ==
  IF e /= Nil THEN Return(Result("nil", <<>>, <<>>, e)) ELSE Goto("NewForConfig")

\* A variant of lines 82-87 that returns a nil client with the error, as
\* GetClusterClientset does.
GetRESTClientAfterConfigNilClient(cfg, e) ==
  IF e /= Nil THEN Return(Result("nil", <<>>, <<>>, e)) ELSE Goto("RESTClientFor")

\* Lines 82-87.
GetRESTClientAfterConfig(cfg, e) ==
  IF e /= Nil THEN Return(Result("emptyRESTClient", <<>>, <<>>, e)) ELSE Goto("RESTClientFor")

\* A variant of lines 100-109 that goes on to build the client whatever
\* GetClusterClientConfig returned.
PodListAfterConfigIgnoresError(cfg, e) == Goto("NewForConfig")

\* Lines 100-109.
PodListAfterConfig(cfg, e) ==
  IF e /= Nil THEN Return(Result("none", <<>>, <<>>, e))
  ELSE IF cfg = "nil" THEN Return(Result("none", <<>>, <<>>, <<"nil config">>))
  ELSE Goto("NewForConfig")

AfterConfig(ep, cfg, e) ==
  CASE ep = "GetClusterClientConfig" -> Return(Result(cfg, <<>>, <<>>, e))
    [] ep = "GetClusterClientset" -> GetClusterClientsetAfterConfig(cfg, e)
    [] ep = "GetRESTClient" -> GetRESTClientAfterConfig(cfg, e)
    [] ep = "PodList" -> PodListAfterConfig(cfg, e)

\* Lines 111-120: PodList after GetClientsetFromClusterConfig.
PodListAfterClientset(cs, e) ==
  IF e /= Nil THEN Return(Result("none", <<>>, <<>>, e))
  ELSE IF cs = "nil" THEN Return(Result("none", <<>>, <<>>, <<"nil clientset">>))
  ELSE Goto("AddToScheme")

\* Lines 58 and 61 (GetClientsetFromClusterConfig entered by the caller), line
\* 74 (GetClusterClientset returns what it returned) and lines 111-120.
AfterClientset(ep, cs, e) ==
  IF ep = "PodList" THEN PodListAfterClientset(cs, e)
                    ELSE Return(Result(cs, <<>>, <<>>, e))

\* Lines 122-124 and req.URL(): the path of the request. The namespace is
\* not validated; an empty namespace leaves the namespaces segment out.
RequestURL(ns) ==
  IF ns = "" THEN <<"api", "v1", "pods">>
             ELSE <<"api", "v1", "namespaces", ns, "pods">>

\* Lines 126-129.
PodListAfterScheme(e) ==
  IF e /= Nil THEN Return(Result("none", <<>>, <<>>, <<"error adding to scheme: ">> \o Fmt(e)))
              ELSE Goto("NewSPDYExecutor")

\* A variant of lines 135-138 that goes on to the stream whatever
\* NewSPDYExecutor returned.
PodListAfterExecutorIgnoresError(e, spdyerr) == Goto("StreamWithContext")

\* A variant of lines 135-138 that calls NewSPDYExecutor again when it failed.
PodListAfterExecutorRetries(e, spdyerr) ==
  IF spdyerr /= Nil THEN Goto("NewSPDYExecutor") ELSE Goto("StreamWithContext")

\* A variant of lines 135-138 with the message of line 148 (a copied format).
PodListAfterExecutorStreamMessage(e, spdyerr) ==
  IF spdyerr /= Nil
    THEN Return(Result("none", <<>>, <<>>, <<"error in Stream: ">> \o Fmt(e)))
    ELSE Goto("StreamWithContext")

\* Lines 135-138: the error formatted is PodList's err (the one line 111
\* assigned), not spdyerr.
PodListAfterExecutor(e, spdyerr) ==
  IF spdyerr /= Nil
    THEN Return(Result("none", <<>>, <<>>, <<"error while creating Executor: ">> \o Fmt(e)))
    ELSE Goto("StreamWithContext")

\* Line 141: the context handed to StreamWithContext.
StreamContext == "Background"

\* A variant of lines 141-146 that hands the stdout buffer to both channels.
StreamOptionsOneBuffer == [Stdin |-> "stdin", Stdout |-> "stdout", Stderr |-> "stdout", Tty |-> FALSE]

\* Lines 141-146: the stream options; Stdout and Stderr name PodList's buffers.
StreamOptions == [Stdin |-> "stdin", Stdout |-> "stdout", Stderr |-> "stderr", Tty |-> FALSE]

\* The buffer the bytes of channel ch are written to under options o: with a
\* TTY there is no separate stderr channel.
Sink(o, ch) == IF o.Tty \/ ch = "stdout" THEN o.Stdout ELSE o.Stderr

\* Whether context ctx is done once the caller's signal has fired:
\* context.Background() is never done.
CtxDone(ctx, fired) == ctx /= "Background" /\ fired

\* The ways a StreamWithContext call on an established session may end.
StreamOutcomes(ctx, fired) ==
  RemoteOutcomes \cup
    (IF CtxDone(ctx, fired) THEN {[end |-> "cancelled", exit |-> 0, err |-> ContextCanceled]}
                            ELSE {})

\* A variant of lines 147-151 that returns the buffers with the error.
PodListAfterStreamKeepsOutput(out, errout, e) ==
  IF e /= Nil THEN Result("none", out, errout, <<"error in Stream: ">> \o Fmt(e))
              ELSE Result("none", out, errout, Nil)

\* Lines 147-151.
PodListAfterStream(out, errout, e) ==
  IF e /= Nil THEN Result("none", <<>>, <<>>, <<"error in Stream: ">> \o Fmt(e))
              ELSE Result("none", out, errout, Nil)

----------------------------------------------------------------------------
\* The state machine

Init ==
  /\ pc = [c \in Calls |-> "idle"]
  /\ entry = [c \in Calls |-> "none"]
  /\ namespace = [c \in Calls |-> ""]
  /\ cfgErr = [c \in Calls |-> Nil]
  /\ config = [c \in Calls |-> "nil"]
  /\ clientset = [c \in Calls |-> "nil"]
  /\ err = [c \in Calls |-> Nil]
  /\ req = [c \in Calls |-> <<>>]
  /\ stdout = [c \in Calls |-> <<>>]
  /\ stderr = [c \in Calls |-> <<>>]
  /\ session = [c \in Calls |-> "none"]
  /\ emitted = [c \in Calls |-> <<>>]
  /\ outcome = [c \in Calls |-> NoOutcome]
  /\ cancel = [c \in Calls |-> "none"]
  /\ trace = [c \in Calls |-> <<>>]
  /\ ret = [c \in Calls |-> NotReturned]

\* The number of bytes emitted on the sessions of the calls in S.
RECURSIVE TotalEmitted(_)
TotalEmitted(S) ==
  IF S = {} THEN 0
  ELSE LET c == CHOOSE x \in S : TRUE IN Len(emitted[c]) + TotalEmitted(S \ {c})

\* The record of one client-go call.
Called(fn, e) == [fn |-> fn, err |-> e]

\* Call c goes where k says, or returns what k says.
Continue(c, k) ==
  /\ pc' = [pc EXCEPT ![c] = k.pc]
  /\ ret' = [ret EXCEPT ![c] = k.ret]

\* The caller enters one of the exported functions. GetClusterClientConfig,
\* GetClusterClientset, GetRESTClient and PodList start with
\* GetClusterClientConfig, whose first statement is rest.InClusterConfig();
\* GetClientsetFromClusterConfig starts with kubernetes.NewForConfig on the
\* config of its caller.
Call(c) ==
  /\ pc[c] = "idle"
  /\ \E ep \in EntryPoints :
       \E ns \in (IF ep = "PodList" THEN Namespaces ELSE {""}) :
         \E cfg \in (IF ep \in ResolvingEntryPoints THEN {"nil"} ELSE ConfigArguments) :
           /\ entry' = [entry EXCEPT ![c] = ep]
           /\ namespace' = [namespace EXCEPT ![c] = ns]
           /\ config' = [config EXCEPT ![c] = cfg]
           /\ pc' = [pc EXCEPT ![c] = IF ep \in ResolvingEntryPoints THEN "InClusterConfig"
                                                                     ELSE "NewForConfig"]
  /\ UNCHANGED <<cfgErr, clientset, err, req, stdout, stderr, session, emitted, outcome,
                 cancel, trace, ret>>

\* Lines 40-41 and 50: rest.InClusterConfig(); on success GetClusterClientConfig
\* returns and the entry point goes on.
InClusterConfig(c) ==
  /\ pc[c] = "InClusterConfig"
  /\ \E o \in InClusterOutcomes :
       /\ trace' = [trace EXCEPT ![c] = Append(@, Called("InClusterConfig", o.err))]
       /\ cfgErr' = [cfgErr EXCEPT ![c] = o.err]
       /\ IF NeedsFallback(o.err)
            THEN /\ pc' = [pc EXCEPT ![c] = "BuildConfigFromFlags"]
                 /\ UNCHANGED <<config, err, ret>>
            ELSE /\ config' = [config EXCEPT ![c] = o.config]
                 /\ err' = [err EXCEPT ![c] = Nil]
                 /\ Continue(c, AfterConfig(entry[c], o.config, Nil))
  /\ UNCHANGED <<entry, namespace, clientset, req, stdout, stderr, session, emitted,
                 outcome, cancel>>

\* Lines 42-50: clientcmd.BuildConfigFromFlags(); GetClusterClientConfig returns
\* and the entry point goes on.
BuildConfigFromFlags(c) ==
  /\ pc[c] = "BuildConfigFromFlags"
  /\ \E o \in BuildConfigOutcomes :
       LET r == FallbackReturn(cfgErr[c], o.config, o.err) IN
         /\ trace' = [trace EXCEPT ![c] = Append(@, Called("BuildConfigFromFlags", o.err))]
         /\ cfgErr' = [cfgErr EXCEPT ![c] = r.err]
         /\ config' = [config EXCEPT ![c] = r.config]
         /\ err' = [err EXCEPT ![c] = r.err]
         /\ Continue(c, AfterConfig(entry[c], r.config, r.err))
  /\ UNCHANGED <<entry, namespace, clientset, req, stdout, stderr, session, emitted,
                 outcome, cancel>>

\* Line 55 on a nil config: kubernetes.NewForConfig panics, no statement of
\* the file recovers, and the invocation returns nothing. Only a caller of
\* GetClientsetFromClusterConfig can hand in a nil config: lines 70 and 105
\* keep it from the other entry points.
NewForConfigPanics(c) ==
  /\ pc[c] = "NewForConfig"
  /\ config[c] = "nil"
  /\ trace' = [trace EXCEPT ![c] = Append(@, Called("NewForConfig", NilDereference))]
  /\ pc' = [pc EXCEPT ![c] = "panicked"]
  /\ UNCHANGED <<entry, namespace, locals, session, emitted, outcome, cancel, ret>>

\* Lines 54-62 (kubernetes.NewForConfig), then the return to the caller, line
\* 74 or lines 112-124.
NewForConfig(c) ==
  /\ pc[c] = "NewForConfig"
  /\ config[c] /= "nil"
  /\ \E o \in NewForConfigOutcomes :
       LET r == GetClientsetFromClusterConfig(o) IN
         /\ trace' = [trace EXCEPT ![c] = Append(@, Called("NewForConfig", o.err))]
         /\ clientset' = [clientset EXCEPT ![c] = r.clientset]
         /\ err' = [err EXCEPT ![c] = r.err]
         /\ Continue(c, AfterClientset(entry[c], r.clientset, r.err))
         /\ req' = [req EXCEPT ![c] =
                      IF AfterClientset(entry[c], r.clientset, r.err).pc = "AddToScheme"
                        THEN RequestURL(namespace[c]) ELSE @]
  /\ UNCHANGED <<entry, namespace, cfgErr, config, stdout, stderr, session, emitted,
                 outcome, cancel>>

\* Line 87: rest.RESTClientFor(config), returned as it is.
RESTClientFor(c) ==
  /\ pc[c] = "RESTClientFor"
  /\ \E o \in RESTClientForOutcomes :
       /\ trace' = [trace EXCEPT ![c] = Append(@, Called("RESTClientFor", o.err))]
       /\ Continue(c, Return(Result(o.client, <<>>, <<>>, o.err)))
  /\ UNCHANGED <<entry, namespace, locals, session, emitted, outcome, cancel>>

\* Lines 125-129: core_v1.AddToScheme(scheme); its error is a local of the if.
AddToScheme(c) ==
  /\ pc[c] = "AddToScheme"
  /\ \E e \in AddToSchemeOutcomes :
       /\ trace' = [trace EXCEPT ![c] = Append(@, Called("AddToScheme", e))]
       /\ Continue(c, PodListAfterScheme(e))
  /\ UNCHANGED <<entry, namespace, locals, session, emitted, outcome, cancel>>

\* Lines 134-138: remotecommand.NewSPDYExecutor(config, "GET", req.URL()).
NewSPDYExecutor(c) ==
  /\ pc[c] = "NewSPDYExecutor"
  /\ \E o \in NewSPDYExecutorOutcomes :
       /\ trace' = [trace EXCEPT ![c] = Append(@, Called("NewSPDYExecutor", o.err))]
       /\ Continue(c, PodListAfterExecutor(err[c], o.err))
  /\ UNCHANGED <<entry, namespace, locals, session, emitted, outcome, cancel>>

\* A variant of line 140 with the two buffers declared once for the package:
\* every call uses the buffers of the first.
BuffersShared(c) == "c1"

\* Line 140: stdout and stderr are locals of PodList, so the buffers call c
\* hands to StreamWithContext are its own.
Buffers(c) == c

\* Lines 140-146: exec.StreamWithContext is called with two empty buffers. It
\* dials the server: either the connection is upgraded and the session
\* streams, or the upgrade is refused and the call returns at once (lines
\* 147-149).
StreamWithContext(c) ==
  /\ pc[c] = "StreamWithContext"
  /\ stdout' = [stdout EXCEPT ![Buffers(c)] = <<>>]
  /\ stderr' = [stderr EXCEPT ![Buffers(c)] = <<>>]
  /\ \E upgraded \in BOOLEAN :
       IF upgraded
         THEN /\ session' = [session EXCEPT ![c] = "open"]
              /\ trace' = [trace EXCEPT ![c] = Append(@, Called("StreamWithContext", Pending))]
              /\ pc' = [pc EXCEPT ![c] = "Streaming"]
              /\ UNCHANGED <<err, ret>>
         ELSE /\ session' = session
              /\ trace' = [trace EXCEPT ![c] =
                             Append(@, Called("StreamWithContext", UpgradeRefused))]
              /\ err' = [err EXCEPT ![c] = UpgradeRefused]
              /\ Continue(c, Return(PodListAfterStream(<<>>, <<>>, UpgradeRefused)))
  /\ UNCHANGED <<entry, namespace, cfgErr, config, clientset, req, emitted, outcome, cancel>>

\* The remote side emits one byte on one channel of an open session;
\* StreamWithContext copies it to the buffer the stream options give.
RemoteEmit(c) ==
  /\ pc[c] = "Streaming"
  /\ TotalEmitted(Calls) < MaxEmit
  /\ \E ch \in Channels, b \in Bytes :
       /\ emitted' = [emitted EXCEPT ![c] = Append(@, <<ch, b>>)]
       /\ stdout' = [stdout EXCEPT ![Buffers(c)] =
                       IF Sink(StreamOptions, ch) = "stdout" THEN Append(@, b) ELSE @]
       /\ stderr' = [stderr EXCEPT ![Buffers(c)] =
                       IF Sink(StreamOptions, ch) = "stderr" THEN Append(@, b) ELSE @]
  /\ UNCHANGED <<pc, entry, namespace, cfgErr, config, clientset, err, req, session,
                 outcome, cancel, trace, ret>>

\* A variant of lines 141-147 in which PodList goes on while the connection is
\* still up (the stream left running in the background).
SessionOnReturnLeftOpen(s) == s

\* Lines 141-147: the call to StreamWithContext is synchronous, and
\* StreamWithContext closes the connection it opened before it returns.
SessionOnReturn(s) == IF s = "open" THEN "closed" ELSE s

\* StreamWithContext returns: the session ended, its connection is closed, and
\* PodList returns (lines 147-151).
StreamReturns(c) ==
  /\ pc[c] = "Streaming"
  /\ \E o \in StreamOutcomes(StreamContext, cancel[c] /= "none") :
       /\ outcome' = [outcome EXCEPT ![c] = o]
       /\ trace' = [trace EXCEPT ![c] =
                      [@ EXCEPT ![Len(@)] = Called("StreamWithContext", o.err)]]
       /\ err' = [err EXCEPT ![c] = o.err]
       /\ Continue(c, Return(PodListAfterStream(stdout[Buffers(c)], stderr[Buffers(c)], o.err)))
  /\ session' = [session EXCEPT ![c] = SessionOnReturn(@)]
  /\ UNCHANGED <<entry, namespace, cfgErr, config, clientset, req, stdout, stderr,
                 emitted, cancel>>

\* The caller's cancellation signal fires while the call is in flight. No
\* exported function takes a context, so the signal reaches nothing.
CallerCancel(c) ==
  /\ pc[c] \notin {"idle", "done", "panicked"}
  /\ cancel[c] = "none"
  /\ cancel' = [cancel EXCEPT ![c] = IF pc[c] = "Streaming" THEN "during" ELSE "before"]
  /\ UNCHANGED <<pc, entry, namespace, locals, session, emitted, outcome, trace, ret>>

\* The steps of call c that the program takes by itself: every client-go call
\* but the wait for the remote side.
ProgramStep(c) ==
  \/ InClusterConfig(c)
  \/ BuildConfigFromFlags(c)
  \/ NewForConfig(c)
  \/ NewForConfigPanics(c)
  \/ RESTClientFor(c)
  \/ AddToScheme(c)
  \/ NewSPDYExecutor(c)
  \/ StreamWithContext(c)

Next ==
  \E c \in Calls :
    \/ Call(c)
    \/ InClusterConfig(c)
    \/ BuildConfigFromFlags(c)
    \/ NewForConfig(c)
    \/ NewForConfigPanics(c)
    \/ RESTClientFor(c)
    \/ AddToScheme(c)
    \/ NewSPDYExecutor(c)
    \/ StreamWithContext(c)
    \/ RemoteEmit(c)
    \/ StreamReturns(c)
    \/ CallerCancel(c)

Spec == Init /\ [][Next]_vars

\* The Go runtime schedules every call, and every client-go function but the
\* wait for the remote side returns.
FairSpec == Spec /\ \A c \in Calls : WF_vars(ProgramStep(c))

----------------------------------------------------------------------------
\* What the properties speak of

\* Call c has called client-go function fn.
Attempted(c, fn) == \E i \in 1..Len(trace[c]) : trace[c][i].fn = fn

\* The last client-go call of c.
LastCall(c) == trace[c][Len(trace[c])]

\* Call c has returned from entry point ep.
Returned(c, ep) == entry[c] = ep /\ pc[c] = "done"

\* Call c has returned because a client-go call failed: the failing call is
\* its last one.
Failed(c) == pc[c] = "done" /\ LastCall(c).err /= Nil

\* rest.InClusterConfig() succeeded in call c.
InClusterSucceeded(c) ==
  Len(trace[c]) >= 1 /\ trace[c][1].fn = "InClusterConfig" /\ trace[c][1].err = Nil

\* rest.InClusterConfig() and BuildConfigFromFlags both failed in call c.
BothFailed(c) ==
  /\ Len(trace[c]) >= 2
  /\ trace[c][1].err /= Nil
  /\ trace[c][2].fn = "BuildConfigFromFlags" /\ trace[c][2].err /= Nil

\* Error e carries the fragments of cause, in order.
Carries(e, cause) ==
  \E i \in 1..Len(e) : i + Len(cause) - 1 <= Len(e) /\ SubSeq(e, i, i + Len(cause) - 1) = cause

\* Error e carries cause right after label.
CarriesLabelled(e, label, cause) ==
  \E i \in 1..Len(e) :
    /\ e[i] = label
    /\ i + Len(cause) <= Len(e)
    /\ SubSeq(e, i + 1, i + Len(cause)) = cause

\* The bytes of channel ch among what the remote side emitted, in order.
EmittedOn(c, ch) ==
  LET s == SelectSeq(emitted[c], LAMBDA x : x[1] = ch) IN [i \in 1..Len(s) |-> s[i][2]]

----------------------------------------------------------------------------
\* Properties

\* C1: when rest.InClusterConfig() succeeds, BuildConfigFromFlags is never
\* called in that invocation, and GetClusterClientConfig returns the
\* in-cluster config with a nil error.
C1_NoFallbackAfterInCluster ==
  \A c \in Calls :
    InClusterSucceeded(c) =>
      /\ ~Attempted(c, "BuildConfigFromFlags")
      /\ config[c] = "inClusterConfig" /\ cfgErr[c] = Nil
      /\ entry[c] = "GetClusterClientConfig" =>
           /\ pc[c] = "done"
           /\ ret[c] = Result("inClusterConfig", <<>>, <<>>, Nil)

C1_Witness ==
  \E c \in Calls : Returned(c, "GetClusterClientConfig") /\ InClusterSucceeded(c)

\* C2: when InClusterConfig and BuildConfigFromFlags both fail,
\* GetClusterClientConfig returns a nil config and one error that carries the
\* InClusterConfig error after the InClusterConfig label and the
\* BuildConfigFromFlags error after the BuildConfigFromFlags label.
C2_BothCausesKept ==
  \A c \in Calls :
    BothFailed(c) =>
      /\ config[c] = "nil"
      /\ CarriesLabelled(cfgErr[c], InClusterLabel, trace[c][1].err)
      /\ CarriesLabelled(cfgErr[c], BuildConfigLabel, trace[c][2].err)
      /\ entry[c] = "GetClusterClientConfig" =>
           /\ pc[c] = "done"
           /\ ret[c].handle = "nil" /\ ret[c].err = cfgErr[c]

C2_Witness ==
  \E c \in Calls : Returned(c, "GetClusterClientConfig") /\ BothFailed(c)

\* C3: every PodList call that ends because one of its steps failed returns a
\* non-nil error and two empty strings, also when stdout or stderr bytes had
\* been received before the stream failed.
C3_FailureReturnsNoOutput ==
  \A c \in Calls :
    (Returned(c, "PodList") /\ Failed(c)) =>
      /\ ret[c].err /= Nil
      /\ ret[c].stdout = <<>> /\ ret[c].stderr = <<>>

C3_Witness ==
  \E c \in Calls :
    /\ Returned(c, "PodList") /\ Failed(c)
    /\ outcome[c].end = "dropped"
    /\ stdout[c] /= <<>> /\ stderr[c] /= <<>>

\* C4: a cancellation signal fired before the streaming phase keeps PodList
\* out of the streaming phase (no session is opened), and a call that got as
\* far as StreamWithContext returns the cancellation error.
C4_CancelBeforeStreaming ==
  \A c \in Calls :
    (entry[c] = "PodList" /\ cancel[c] = "before") =>
      /\ pc[c] /= "Streaming" /\ session[c] = "none"
      /\ (pc[c] = "done" /\ Attempted(c, "StreamWithContext")) =>
           Carries(ret[c].err, ContextCanceled)

\* C5: a PodList call whose cancellation signal fired during the streaming
\* phase returns the cancellation error, and its session is not left open.
C5_CancelMidStream ==
  \A c \in Calls :
    (Returned(c, "PodList") /\ cancel[c] = "during") =>
      /\ Carries(ret[c].err, ContextCanceled)
      /\ session[c] /= "open"

\* C6: a PodList call whose caller has cancelled eventually returns, also when
\* the remote side never closes the stream and no I/O error occurs.
C6_CancelledCallReturns ==
  \A c \in Calls : (entry[c] = "PodList" /\ cancel[c] /= "none") ~> (pc[c] = "done")

\* C7: the error returned for a failing step carries the error that step
\* raised (for NewSPDYExecutor as for every other step).
C7_CausePreserved ==
  \A c \in Calls : Failed(c) => Carries(ret[c].err, LastCall(c).err)

\* C8: a PodList call whose session ends cleanly returns a nil error, as stdout
\* exactly the bytes emitted on the stdout channel and as stderr exactly the
\* bytes emitted on the stderr channel, in order.
C8_StreamsSeparated ==
  \A c \in Calls :
    (Returned(c, "PodList") /\ outcome[c].end = "closed" /\ outcome[c].exit = 0) =>
      /\ ret[c].err = Nil
      /\ ret[c].stdout = EmittedOn(c, "stdout")
      /\ ret[c].stderr = EmittedOn(c, "stderr")

C8_Witness ==
  \E c \in Calls :
    /\ Returned(c, "PodList") /\ outcome[c].end = "closed" /\ outcome[c].exit = 0
    /\ emitted[c] = <<(<<"stderr", "b">>), (<<"stdout", "a">>)>>
    /\ ret[c].stdout = <<"a">> /\ ret[c].stderr = <<"b">>

\* C9: a PodList call whose remote command exits with a non-zero status
\* returns a nil error and the bytes emitted on each channel.
C9_NonZeroExitIsSuccess ==
  \A c \in Calls :
    (Returned(c, "PodList") /\ outcome[c].end = "closed" /\ outcome[c].exit /= 0) =>
      /\ ret[c].err = Nil
      /\ ret[c].stdout = EmittedOn(c, "stdout")
      /\ ret[c].stderr = EmittedOn(c, "stderr")

\* C10: a PodList call whose namespace names no resource (the empty
\* namespace) never reaches NewSPDYExecutor or StreamWithContext.
C10_EmptyNamespaceFailsFast ==
  \A c \in Calls :
    (entry[c] = "PodList" /\ namespace[c] = "") =>
      /\ ~Attempted(c, "NewSPDYExecutor")
      /\ ~Attempted(c, "StreamWithContext")

\* GetClusterClientConfig had returned a config before the j-th client-go call
\* of c was made.
ResolvedBefore(c, j) ==
  \E i \in 1..(j - 1) :
    trace[c][i].fn \in {"InClusterConfig", "BuildConfigFromFlags"} /\ trace[c][i].err = Nil

\* The client had been constructed before the j-th client-go call of c was made.
ClientBuiltBefore(c, j) ==
  \E i \in 1..(j - 1) : trace[c][i].fn = "NewForConfig" /\ trace[c][i].err = Nil

\* C11 as stated, for every invocation of an exported function: a client is
\* constructed only after GetClusterClientConfig succeeded in that invocation,
\* and NewSPDYExecutor and StreamWithContext are called only after the client
\* was constructed; when GetClusterClientConfig fails, the invocation returns
\* without constructing a client and without starting a session.
C11_ClientOnlyAfterResolve ==
  \A c \in Calls :
    /\ \A j \in 1..Len(trace[c]) :
         /\ trace[c][j].fn \in {"NewForConfig", "RESTClientFor"} => ResolvedBefore(c, j)
         /\ trace[c][j].fn \in {"AddToScheme", "NewSPDYExecutor", "StreamWithContext"} =>
              ResolvedBefore(c, j) /\ ClientBuiltBefore(c, j)
    /\ BothFailed(c) =>
         /\ pc[c] = "done" /\ Len(trace[c]) = 2
         /\ session[c] = "none"

\* C11, amended: in an invocation of an exported function that resolves the
\* credentials itself, a client is constructed only after
\* GetClusterClientConfig succeeded, and NewSPDYExecutor and StreamWithContext
\* are called only after the client was constructed; when
\* GetClusterClientConfig fails, the invocation returns without constructing
\* a client and without starting a session. An invocation of
\* GetClientsetFromClusterConfig constructs the client from the config of its
\* caller: kubernetes.NewForConfig is its only client-go call, no credential
\* is resolved in it and no session is started.
C11_ResolverFactoryExecutor ==
  \A c \in Calls :
    /\ entry[c] \in ResolvingEntryPoints =>
         \A j \in 1..Len(trace[c]) :
           trace[c][j].fn \in {"NewForConfig", "RESTClientFor"} => ResolvedBefore(c, j)
    /\ \A j \in 1..Len(trace[c]) :
         trace[c][j].fn \in {"AddToScheme", "NewSPDYExecutor", "StreamWithContext"} =>
           ResolvedBefore(c, j) /\ ClientBuiltBefore(c, j)
    /\ BothFailed(c) =>
         /\ pc[c] = "done" /\ Len(trace[c]) = 2
         /\ session[c] = "none"
    /\ entry[c] = "GetClientsetFromClusterConfig" =>
         /\ Len(trace[c]) <= 1
         /\ \A j \in 1..Len(trace[c]) : trace[c][j].fn = "NewForConfig"
         /\ pc[c] \notin {"idle", "NewForConfig"} => Len(trace[c]) = 1
         /\ session[c] = "none"

C11_Witness ==
  \E c, d \in Calls :
    /\ Returned(c, "PodList") /\ BothFailed(c)
    /\ entry[d] = "PodList" /\ pc[d] = "Streaming"

\* The error PodList returns when its last client-go call failed, computed
\* from what the client-go calls of c alone returned.
OwnError(c) ==
  LET last == LastCall(c) IN
    CASE last.fn = "BuildConfigFromFlags" -> AggregateError(trace[c][1].err, last.err)
      [] last.fn = "NewForConfig" ->
           GetClientsetFromClusterConfig([clientset |-> "nil", err |-> last.err]).err
      [] last.fn = "AddToScheme" -> PodListAfterScheme(last.err).ret.err
      [] last.fn = "NewSPDYExecutor" -> PodListAfterExecutor(Nil, last.err).ret.err
      [] last.fn = "StreamWithContext" -> PodListAfterStream(<<>>, <<>>, last.err).err

\* What PodList call c returns when it runs alone: a function of what its own
\* client-go calls returned and of what was emitted on its own session.
AloneResult(c) ==
  IF LastCall(c).err = Nil
    THEN Result("none", EmittedOn(c, "stdout"), EmittedOn(c, "stderr"), Nil)
    ELSE Result("none", <<>>, <<>>, OwnError(c))

\* C12: under every interleaving of concurrent PodList calls, the buffers of
\* a streaming call hold exactly the bytes emitted on its own session, and
\* what a call returns is what it returns when run alone against the same
\* client-go results and the same remote behaviour.
C12_CallsIndependent ==
  \A c \in Calls :
    entry[c] = "PodList" =>
      /\ pc[c] = "Streaming" =>
           /\ stdout[c] = EmittedOn(c, "stdout")
           /\ stderr[c] = EmittedOn(c, "stderr")
      /\ pc[c] = "done" => ret[c] = AloneResult(c)

C12_Witness ==
  /\ \A c \in Calls : entry[c] = "PodList" /\ pc[c] = "Streaming"
  /\ emitted["c1"] = <<(<<"stdout", "a">>)>> /\ stdout["c1"] = <<"a">>
  /\ emitted["c2"] = <<(<<"stdout", "b">>)>> /\ stdout["c2"] = <<"b">>

\* NewSPDYExecutor has returned an executor to call c.
ExecutorCreated(c) ==
  \E i \in 1..Len(trace[c]) : trace[c][i].fn = "NewSPDYExecutor" /\ trace[c][i].err = Nil

\* The state of the session of call c, read from what the call holds: no
\* request yet (Idle, also for a call that returned before line 122), a
\* request (RequestBuilt), an executor (Upgraded), an open connection
\* (Streaming), and after the return Completed or Failed.
SessionState(c) ==
  IF entry[c] /= "PodList" \/ req[c] = <<>> THEN "Idle"
  ELSE IF pc[c] = "done" THEN (IF ret[c].err = Nil THEN "Completed" ELSE "Failed")
  ELSE IF session[c] = "open" THEN "Streaming"
  ELSE IF ExecutorCreated(c) THEN "Upgraded"
  ELSE "RequestBuilt"

\* The transitions of one session.
SessionEdges ==
  { <<"Idle", "RequestBuilt">>,
    <<"RequestBuilt", "Upgraded">>, <<"RequestBuilt", "Failed">>,
    <<"Upgraded", "Streaming">>, <<"Upgraded", "Failed">>,
    <<"Streaming", "Completed">>, <<"Streaming", "Failed">> }

\* C13: every step leaves the session of a call where it is or moves it along
\* Idle -> RequestBuilt -> Upgraded -> Streaming -> Completed, or to Failed
\* from RequestBuilt, Upgraded or Streaming: no state is skipped, Completed is
\* entered only from Streaming and Failed never from Idle.
C13_SessionStateMachine ==
  [][\A c \in Calls :
       \/ SessionState(c)' = SessionState(c)
       \/ <<SessionState(c), SessionState(c)'>> \in SessionEdges]_vars

C13_Witness ==
  \E c, d \in Calls :
    /\ SessionState(c) = "Completed"
    /\ SessionState(d) = "Failed" /\ LastCall(d).fn = "AddToScheme"

\* The client-go functions the file calls.
ClientGoCalls ==
  {"InClusterConfig", "BuildConfigFromFlags", "NewForConfig", "RESTClientFor",
   "AddToScheme", "NewSPDYExecutor", "StreamWithContext"}

\* The place of each client-go call in the order of the steps.
Rank(fn) ==
  CASE fn = "InClusterConfig" -> 1
    [] fn = "BuildConfigFromFlags" -> 2
    [] fn \in {"NewForConfig", "RESTClientFor"} -> 3
    [] fn = "AddToScheme" -> 4
    [] fn = "NewSPDYExecutor" -> 5
    [] fn = "StreamWithContext" -> 6

\* How many times call c has called fn.
Attempts(c, fn) == Cardinality({i \in 1..Len(trace[c]) : trace[c][i].fn = fn})

\* C14: in one invocation of any exported function every step
\* (InClusterConfig, BuildConfigFromFlags, client construction, scheme
\* registration, NewSPDYExecutor, StreamWithContext) is attempted at most
\* once, whatever failed (the calls of an invocation follow the order of the
\* steps and never go back to a step or repeat it), and in every invocation
\* that calls GetClusterClientConfig, InClusterConfig is attempted exactly
\* once, first, as soon as GetClusterClientConfig has run.
C14_NoRetry ==
  \A c \in Calls :
    /\ \A i \in 1..(Len(trace[c]) - 1) : Rank(trace[c][i].fn) < Rank(trace[c][i + 1].fn)
    /\ (entry[c] \in ResolvingEntryPoints /\ pc[c] \notin {"idle", "InClusterConfig"}) =>
         (Len(trace[c]) >= 1 /\ trace[c][1].fn = "InClusterConfig")

C14_Witness ==
  \E c \in Calls :
    /\ Returned(c, "PodList") /\ Failed(c)
    /\ trace[c][1].err /= Nil
    /\ LastCall(c).fn = "StreamWithContext"
    /\ \A fn \in ClientGoCalls \ {"RESTClientFor"} : Attempts(c, fn) = 1

\* C15: a session is open only while its PodList call is inside
\* StreamWithContext; on every exit path the connection is gone once the call
\* has returned, so when no call is in flight no session is open.
C15_NoSessionAfterReturn ==
  /\ \A c \in Calls : session[c] = "open" => (entry[c] = "PodList" /\ pc[c] = "Streaming")
  /\ (\A c \in Calls : pc[c] \in {"idle", "done", "panicked"}) =>
       (\A c \in Calls : session[c] /= "open")

C15_Witness ==
  \E c, d \in Calls :
    /\ Returned(c, "PodList") /\ ret[c].err = Nil /\ session[c] = "closed"
    /\ Returned(d, "PodList") /\ outcome[d].end = "dropped" /\ session[d] = "closed"

\* What a caller can read the failing step from: the literal text the
\* message of the returned error starts with (the errors have no type of
\* their own and wrap nothing).
Classification(e) == e[1]

\* C16: two PodList calls that failed at different steps (credential
\* resolution, client construction, scheme registration, NewSPDYExecutor,
\* StreamWithContext) return errors of different classification.
C16_DistinctClassification ==
  \A c, d \in Calls :
    ( /\ Returned(c, "PodList") /\ Failed(c)
      /\ Returned(d, "PodList") /\ Failed(d)
      /\ LastCall(c).fn /= LastCall(d).fn )
    => Classification(ret[c].err) /= Classification(ret[d].err)

C16_Witness ==
  \E c, d \in Calls :
    /\ Returned(c, "PodList") /\ Failed(c) /\ LastCall(c).fn = "NewSPDYExecutor"
    /\ Returned(d, "PodList") /\ Failed(d) /\ LastCall(d).fn = "StreamWithContext"

\* InClusterConfig failed and BuildConfigFromFlags succeeded in call c.
FallbackSucceeded(c) ==
  /\ Len(trace[c]) >= 2
  /\ trace[c][1].err /= Nil
  /\ trace[c][2].fn = "BuildConfigFromFlags" /\ trace[c][2].err = Nil

\* C17: GetClusterClientConfig returns either a config and a nil error or a
\* nil config and an error, never both and never neither; when InClusterConfig
\* fails and BuildConfigFromFlags succeeds it returns the kubeconfig-based
\* config with a nil error.
C17_ConfigXorError ==
  \A c \in Calls :
    Returned(c, "GetClusterClientConfig") =>
      /\ (ret[c].handle = "nil") <=> (ret[c].err /= Nil)
      /\ ret[c].err = Nil => ret[c].handle \in {"inClusterConfig", "kubeConfig"}
      /\ FallbackSucceeded(c) => ret[c] = Result("kubeConfig", <<>>, <<>>, Nil)

C17_Witness ==
  \E c \in Calls : Returned(c, "GetClusterClientConfig") /\ FallbackSucceeded(c)

\* C18: when GetClusterClientConfig fails, GetClusterClientset returns a nil
\* clientset and GetRESTClient a non-nil empty RESTClient, each with the error
\* of GetClusterClientConfig unchanged and without calling NewForConfig or
\* RESTClientFor.
C18_HandleWithResolutionError ==
  \A c \in Calls :
    BothFailed(c) =>
      /\ entry[c] = "GetClusterClientset" =>
           /\ pc[c] = "done"
           /\ ret[c] = Result("nil", <<>>, <<>>, cfgErr[c])
           /\ ~Attempted(c, "NewForConfig")
      /\ entry[c] = "GetRESTClient" =>
           /\ pc[c] = "done"
           /\ ret[c] = Result("emptyRESTClient", <<>>, <<>>, cfgErr[c])
           /\ ~Attempted(c, "RESTClientFor")

C18_Witness ==
  \E c, d \in Calls :
    /\ Returned(c, "GetClusterClientset") /\ BothFailed(c)
    /\ Returned(d, "GetRESTClient") /\ BothFailed(d)
    /\ ret[c].handle /= ret[d].handle /\ ret[c].err = ret[d].err

====
